---------------------------- MODULE Spec2Model ----------------------------
(***************************************************************************)
(* A model of s.py, the schema compiler of cxx-easy-types: the name        *)
(* transforms, the reference resolver, the recursive type-graph builder    *)
(* create_types, the load loop that builds one Namespace per document and  *)
(* the render loop that writes the generated files.                        *)
(*                                                                         *)
(* A Python str is a sequence of one-character strings.  A YAML value is a *)
(* record tagged by the Python type yaml.safe_load gives it: "str",        *)
(* "dict" (its items in insertion order), "list", or "other" (None, int,   *)
(* float, bool).  A Python dict is the sequence of its items in insertion  *)
(* order.  An exception is the result [ok |-> FALSE].                      *)
(***************************************************************************)
EXTENDS Integers, Sequences, FiniteSets, TLC

VARIABLES
    files,      \* the lines of fileinput.input(): what each named file holds
    pc,         \* position of the script: "load", "render", "done", "aborted"
    loaded,     \* number of files the load loop has gone through
    heap,       \* the dict objects made by Namespace(..., dict()), by identity
    namespaces, \* the Namespace objects made so far: [name, types (heap id), regs]
    types,      \* the module-level list `types`
    rendered,   \* number of entries of `types` the render loop has gone through
    written,    \* the files written under generated/, in order
    bNs,        \* builder run: name of the current namespace
    bName,      \* builder run: the name argument
    bDesc,      \* builder run: the desc argument
    bOut,       \* builder run: outcome of create_types(namespace, name, desc)
    bWrapOut,   \* builder run: outcome of create_types on {structure: desc}
    rNs,        \* resolver run: name of the current namespace
    rPath,      \* resolver run: the path argument
    rOut        \* resolver run: what _resolve_refpath returned

progVars == <<files, pc, loaded, heap, namespaces, types, rendered, written>>
buildVars == <<bNs, bName, bDesc, bOut, bWrapOut>>
resolveVars == <<rNs, rPath, rOut>>
vars == <<files, pc, loaded, heap, namespaces, types, rendered, written,
          bNs, bName, bDesc, bOut, bWrapOut, rNs, rPath, rOut>>

(***************************************************************************)
(* Python strings                                                          *)
(***************************************************************************)
LowerChars == <<"a","b","c","d","e","f","g","h","i","j","k","l","m",
                "n","o","p","q","r","s","t","u","v","w","x","y","z">>
UpperChars == <<"A","B","C","D","E","F","G","H","I","J","K","L","M",
                "N","O","P","Q","R","S","T","U","V","W","X","Y","Z">>

IsLower(c) == \E i \in 1..Len(LowerChars) : LowerChars[i] = c
IsUpper(c) == \E i \in 1..Len(UpperChars) : UpperChars[i] = c
IsCased(c) == IsLower(c) \/ IsUpper(c)
ToUpper(c) ==
    IF IsLower(c)
    THEN UpperChars[CHOOSE i \in 1..Len(LowerChars) : LowerChars[i] = c]
    ELSE c
ToLower(c) ==
    IF IsUpper(c)
    THEN LowerChars[CHOOSE i \in 1..Len(UpperChars) : UpperChars[i] = c]
    ELSE c

\* str.title(): a cased character is upper-cased when the character before it
\* is not cased (or there is none) and lower-cased when it is.
Title(s) ==
    [i \in 1..Len(s) |->
        IF IsCased(s[i])
        THEN IF i > 1 /\ IsCased(s[i-1]) THEN ToLower(s[i]) ELSE ToUpper(s[i])
        ELSE s[i]]

\* sub in s, for two strings: s has sub as a contiguous run.
StrContains(sub, s) ==
    \E i \in 0..(Len(s) - Len(sub)) :
        \A j \in 1..Len(sub) : s[i + j] = sub[j]

\* s.split(sep) for a one-character sep: the runs between the separators,
\* empty runs kept.
RECURSIVE Split(_, _)
Split(s, sep) ==
    IF \A i \in 1..Len(s) : s[i] # sep
    THEN <<s>>
    ELSE LET k == CHOOSE i \in 1..Len(s) :
                      s[i] = sep /\ \A j \in 1..(i-1) : s[j] # sep
         IN  <<SubSeq(s, 1, k - 1)>> \o Split(SubSeq(s, k + 1, Len(s)), sep)

\* sep.join(parts)
RECURSIVE Join(_, _)
Join(parts, sep) ==
    IF Len(parts) = 0 THEN <<>>
    ELSE IF Len(parts) = 1 THEN parts[1]
    ELSE parts[1] \o sep \o Join(Tail(parts), sep)

\* "".join(map(f, parts)) with f = str.title
RECURSIVE JoinTitled(_)
JoinTitled(parts) ==
    IF Len(parts) = 0 THEN <<>>
    ELSE Title(parts[1]) \o JoinTitled(Tail(parts))

_camel_case(s) == JoinTitled(Split(s, "_"))


\* _snake_case is used by the render loop only to spell file names; the model
\* identifies a written file by the type it is rendered from and its role.

(***************************************************************************)
(* String literals of the source                                           *)
(***************************************************************************)
S_enum == <<"e","n","u","m">>
S_structure == <<"s","t","r","u","c","t","u","r","e">>
S_namespace == <<"n","a","m","e","s","p","a","c","e">>
S_types == <<"t","y","p","e","s">>
S_Item == <<"I","t","e","m">>
S_str == <<"s","t","r">>
S_bool == <<"b","o","o","l">>
S_int == <<"i","n","t">>
S_float == <<"f","l","o","a","t">>

\* The keys of Primitive.map (its values, the C++ spellings, are read only
\* by the templates).
PrimitiveMap == {S_str, S_bool, S_int, S_float}

(***************************************************************************)
(* YAML values and Python dicts                                            *)
(***************************************************************************)
Str(s) == [kind |-> "str", val |-> s]
Dict(items) == [kind |-> "dict", items |-> items]
List(elems) == [kind |-> "list", elems |-> elems]
Other == [kind |-> "other"]
\* A file that cannot be opened or is not YAML: line 120 or 121 raises.
Unparsable == [kind |-> "unparsable"]
Item(k, v) == [key |-> k, val |-> v]

\* k in d, d[k] and d[k] = v for a dict held as the sequence of its items:
\* assigning to a key the dict has keeps the key's place.
DictHas(d, k) == \E i \in 1..Len(d) : d[i].key = k
DictGet(d, k) == d[CHOOSE i \in 1..Len(d) : d[i].key = k].val
DictSet(d, k, v) ==
    IF DictHas(d, k)
    THEN [i \in 1..Len(d) |-> IF d[i].key = k THEN Item(k, v) ELSE d[i]]
    ELSE Append(d, Item(k, v))
DictValues(d) == [i \in 1..Len(d) |-> d[i].val]

(***************************************************************************)
(* The classes of the type graph                                           *)
(***************************************************************************)
Reference(name, path) == [kind |-> "Reference", name |-> name, path |-> path]
Primitive(name) == [kind |-> "Primitive", name |-> name]
Object(name, path, fields) ==
    [kind |-> "Object", name |-> name, path |-> path, fields |-> fields]
Array(name, path, item) ==
    [kind |-> "Array", name |-> name, path |-> path, item |-> item]
EnumClass(name, path, values) ==
    [kind |-> "EnumClass", name |-> name, path |-> path, values |-> values]
\* Optional.__init__ asserts that what it wraps is not an Optional.
OptionalOk(t) == t.kind # "Optional"
Optional(t) == [kind |-> "Optional", under |-> t]

\* A Namespace under construction: its name, its types dict, and (history)
\* the assignments namespace.types[...] = res made so far: the key and the
\* class of res, in order.
Namespace(name, typesDict) == [name |-> name, types |-> typesDict, regs |-> <<>>]

\* namespace.types[res.name] = res
Register(ns, res) ==
    [ns EXCEPT !.types = DictSet(ns.types, res.name, res),
               !.regs = Append(ns.regs, [name |-> res.name, kind |-> res.kind])]

(***************************************************************************)
(* Reference resolver                                                      *)
(***************************************************************************)
ResolveFirstComponent(nsName, path) ==
    IF StrContains(<<".">>, path)
    THEN LET parts == Split(path, ".")
         IN  <<parts[Len(parts)], parts[1]>>
    ELSE <<path, nsName>>

_resolve_refpath(nsName, path) ==
    IF StrContains(<<".">>, path)
    THEN LET parts == Split(path, ".")
         IN  <<parts[Len(parts)], Join(SubSeq(parts, 1, Len(parts) - 1), <<".">>)>>
    ELSE <<path, nsName>>

(***************************************************************************)
(* Type graph builder                                                      *)
(***************************************************************************)
\* The outcome of a call: it returned res, or it raised; either way the
\* namespace is left as ns.
Return(res, ns) == [ok |-> TRUE, res |-> res, ns |-> ns]
Raise(ns) == [ok |-> FALSE, res |-> [kind |-> "none"], ns |-> ns]

\* `x in struct` of lines 88 and 92, for x a str: a substring test on a str,
\* a key test on a dict, a membership test on a list.  On None or a number
\* the test raises TypeError: InRaises.
InRaises(struct) == struct.kind \notin {"str", "dict", "list"}
In(x, struct) ==
    CASE struct.kind = "str" -> StrContains(x, struct.val)
      [] struct.kind = "dict" -> DictHas(struct.items, x)
      [] struct.kind = "list" ->
            \E i \in 1..Len(struct.elems) : struct.elems[i] = Str(x)
      [] OTHER -> FALSE

\* struct[x] of lines 89 and 93, for x a str: defined on a dict only; on a
\* str or a list it raises TypeError.
SubscriptRaises(struct) == struct.kind # "dict"

\* assert len(struct) == 1
ArityAtLeastOne(struct) == Len(struct.elems) >= 1
ArityOk(struct) == Len(struct.elems) = 1

\* k[-1] raises IndexError on the empty key.
LastCharRaises(k) == Len(k) = 0
IsOptionalKey(k) == k[Len(k)] = "?"
StripMarker(k) == SubSeq(k, 1, Len(k) - 1)

RECURSIVE create_types(_, _, _)
RECURSIVE create_struct(_, _, _)
RECURSIVE create_fields(_, _, _, _, _)

\* Lines 100-106: the loop over struct.items(), from item i on, with the
\* fields dict built so far.  Returns the fields as res.
create_fields(ns, name, items, i, fields) ==
    IF i > Len(items) THEN Return(fields, ns)
    ELSE IF LastCharRaises(items[i].key) THEN Raise(ns)
    ELSE LET opt == IsOptionalKey(items[i].key)
             k == IF opt THEN StripMarker(items[i].key) ELSE items[i].key
             c == create_types(ns, name \o _camel_case(k), items[i].val)
         IN  IF ~c.ok THEN c
             ELSE IF opt /\ ~OptionalOk(c.res) THEN Raise(c.ns)
             ELSE create_fields(c.ns, name, items, i + 1,
                      DictSet(fields, k, IF opt THEN Optional(c.res) ELSE c.res))

\* Lines 94-114: what follows the two tests, on struct.
create_struct(ns, name, struct) ==
    CASE struct.kind = "str" ->
            IF struct.val \notin PrimitiveMap
            THEN LET r == _resolve_refpath(ns.name, struct.val)
                 IN  Return(Reference(r[1], r[2]), ns)
            ELSE LET res == Primitive(struct.val)
                 IN  Return(res, Register(ns, res))
      [] struct.kind = "dict" ->
            LET f == create_fields(ns, name, struct.items, 1, <<>>)
            IN  IF ~f.ok THEN f
                ELSE LET res == Object(name, f.ns.name, f.res)
                     IN  Return(res, Register(f.ns, res))
      [] struct.kind = "list" ->
            IF ~ArityOk(struct) THEN Raise(ns)
            ELSE LET c == create_types(ns, name \o S_Item, struct.elems[1])
                 IN  IF ~c.ok THEN c
                     ELSE LET res == Array(name, c.ns.name, c.res)
                          IN  Return(res, Register(c.ns, res))
      \* no branch binds res: line 113 raises UnboundLocalError
      [] OTHER -> Raise(ns)

\* Lines 87-114: create_types with a namespace given.  copy.deepcopy(desc)
\* is desc itself: values are not shared here.
create_types(ns, name, desc) ==
    IF InRaises(desc) THEN Raise(ns)
    ELSE IF In(S_enum, desc)
    THEN IF SubscriptRaises(desc) THEN Raise(ns)
         ELSE LET res == EnumClass(name, ns.name, DictGet(desc.items, S_enum))
              IN  Return(res, Register(ns, res))
    ELSE IF In(S_structure, desc)
    THEN IF SubscriptRaises(desc) THEN Raise(ns)
         ELSE create_struct(ns, name, DictGet(desc.items, S_structure))
    ELSE create_struct(ns, name, desc)

\* Lines 83-84: the loop over desc["types"].items(), from item i on.
RECURSIVE create_all(_, _, _)
create_all(ns, items, i) ==
    IF i > Len(items) THEN Return(ns, ns)
    ELSE LET c == create_types(ns, items[i].key, items[i].val)
         IN  IF ~c.ok THEN c ELSE create_all(c.ns, items, i + 1)

\* Lines 81-85: create_types(None, None, desc), with the dict that dict()
\* made.  desc["namespace"] and desc["types"] raise on a desc that is no dict
\* or lacks the key; .items() raises on types that are no dict.
create_namespace(desc, typesDict) ==
    IF desc.kind # "dict" \/ ~DictHas(desc.items, S_namespace)
    THEN Raise(Namespace(<<>>, typesDict))
    ELSE LET namespace == Namespace(DictGet(desc.items, S_namespace).val, typesDict)
         IN  IF ~DictHas(desc.items, S_types) THEN Raise(namespace)
             ELSE IF DictGet(desc.items, S_types).kind # "dict" THEN Raise(namespace)
             ELSE create_all(namespace, DictGet(desc.items, S_types).items, 1)

(***************************************************************************)
(* The script: load loop (lines 117-123) and render loop (lines 208-224)   *)
(***************************************************************************)
\* dict() of line 82 makes a new dict object: the next free identity.
SharedDict(h) == 1
NewDict(h) == Len(h) + 1

\* What the dict object id holds, and the heap once it holds d.
HeapGet(h, id) == IF id \in 1..Len(h) THEN h[id] ELSE <<>>
HeapPut(h, id, d) ==
    IF id \in 1..Len(h) THEN [h EXCEPT ![id] = d] ELSE Append(h, d)

\* Lines 120-122 on one file: yaml.safe_load raises on a file that is not
\* YAML; otherwise create_types(None, None, got).
LoadOutcome(got, typesDict) ==
    IF got = Unparsable THEN Raise(Namespace(<<>>, typesDict))
    ELSE create_namespace(got, typesDict)

\* Line 210: the keys of definition_templates.
DefinitionTemplates == {"Object", "Array", "EnumClass"}

\* The render loop starts once the load loop has ended: it is at module level
\* after it.
RenderAlongsideLoad == pc \in {"load", "render"} /\ rendered < Len(types)
RenderLoopRunning == pc = "render" /\ rendered < Len(types)

WrittenFile(role, t) == [role |-> role, path |-> t.path, name |-> t.name]

BuildIdle ==
    /\ bNs = <<>> /\ bName = <<>> /\ bDesc = Other
    /\ bOut = [run |-> FALSE] /\ bWrapOut = [run |-> FALSE]
ResolveIdle == rNs = <<>> /\ rPath = <<>> /\ rOut = <<>>
ProgIdle ==
    /\ files = <<>> /\ pc = "idle" /\ loaded = 0 /\ heap = <<>>
    /\ namespaces = <<>> /\ types = <<>> /\ rendered = 0 /\ written = <<>>

\* One pass of the load loop over a file that builds.
LoadDocument ==
    /\ pc = "load" /\ loaded < Len(files)
    /\ LET id == NewDict(heap)
           r == LoadOutcome(files[loaded + 1], HeapGet(heap, id))
       IN  /\ r.ok
           /\ heap' = HeapPut(heap, id, r.res.types)
           /\ namespaces' = Append(namespaces,
                  [name |-> r.res.name, types |-> id, regs |-> r.res.regs])
           /\ types' = types \o DictValues(r.res.types)
    /\ loaded' = loaded + 1
    /\ UNCHANGED <<files, pc, rendered, written>>
    /\ UNCHANGED buildVars /\ UNCHANGED resolveVars

\* One pass of the load loop over a file that raises: the script ends with
\* the traceback.
LoadAborts ==
    /\ pc = "load" /\ loaded < Len(files)
    /\ ~LoadOutcome(files[loaded + 1], HeapGet(heap, NewDict(heap))).ok
    /\ pc' = "aborted"
    /\ UNCHANGED <<files, loaded, heap, namespaces, types, rendered, written>>
    /\ UNCHANGED buildVars /\ UNCHANGED resolveVars

\* Lines 126-208: the load loop is over; classes and templates are set up.
StartRender ==
    /\ pc = "load" /\ loaded = Len(files)
    /\ pc' = "render"
    /\ UNCHANGED <<files, loaded, heap, namespaces, types, rendered, written>>
    /\ UNCHANGED buildVars /\ UNCHANGED resolveVars

\* Lines 210-211: a type with no definition template is passed over.
RenderSkip ==
    /\ RenderLoopRunning
    /\ types[rendered + 1].kind \notin DefinitionTemplates
    /\ rendered' = rendered + 1
    /\ UNCHANGED <<files, pc, loaded, heap, namespaces, types, written>>
    /\ UNCHANGED buildVars /\ UNCHANGED resolveVars

\* Lines 213-216: the definition file of an Object or an Array.
RenderDefinition ==
    /\ RenderLoopRunning
    /\ types[rendered + 1].kind \in {"Object", "Array"}
    /\ written' = Append(written, WrittenFile("definition", types[rendered + 1]))
    /\ rendered' = rendered + 1
    /\ UNCHANGED <<files, pc, loaded, heap, namespaces, types>>
    /\ UNCHANGED buildVars /\ UNCHANGED resolveVars

\* Lines 213-224: the definition file of an EnumClass and its two string
\* utility files.
RenderEnum ==
    /\ RenderLoopRunning
    /\ types[rendered + 1].kind = "EnumClass"
    /\ written' = written \o
           << WrittenFile("definition", types[rendered + 1]),
              WrittenFile("enum_string_header", types[rendered + 1]),
              WrittenFile("enum_string_source", types[rendered + 1]) >>
    /\ rendered' = rendered + 1
    /\ UNCHANGED <<files, pc, loaded, heap, namespaces, types>>
    /\ UNCHANGED buildVars /\ UNCHANGED resolveVars

\* The render loop is over and the script ends.
Finish ==
    /\ pc = "render" /\ rendered = Len(types)
    /\ pc' = "done"
    /\ UNCHANGED <<files, loaded, heap, namespaces, types, rendered, written>>
    /\ UNCHANGED buildVars /\ UNCHANGED resolveVars

(***************************************************************************)
(* Bounded inputs                                                          *)
(***************************************************************************)
S_geo == <<"g","e","o">>
S_pkg_a == <<"p","k","g",".","a">>
S_T == <<"T">>
S_pkg_b == <<"p","k","g",".","b">>
S_pkg_b_T == <<"p","k","g",".","b",".","T">>
S_pkg_enums_Color == <<"p","k","g",".","e","n","u","m","s",".","C","o","l","o","r">>
S_Point == <<"P","o","i","n","t">>
S_Path == <<"P","a","t","h">>
S_PathItem == <<"P","a","t","h","I","t","e","m">>
S_Color == <<"C","o","l","o","r">>
S_Bad == <<"B","a","d">>
S_x == <<"x">>
S_y == <<"y">>
S_labelQ == <<"l","a","b","e","l","?">>
S_red == <<"r","e","d">>
S_green == <<"g","r","e","e","n">>
S_blue == <<"b","l","u","e">>
S_a == <<"a">>
S_aQ == <<"a","?">>
S_aQQ == <<"a","?","?">>
S_b_c == <<"b","_","c">>
S_empty == <<>>

MaxFiles == 2
MaxItems == 2
MaxFields == 2
MaxPathLen == 4

\* Sequences over S of length at most n, and those without a repeated element.
SeqsUpTo(S, n) == UNION {[1..k -> S] : k \in 0..n}
DistinctSeqsUpTo(S, n) ==
    {q \in SeqsUpTo(S, n) : \A i, j \in 1..Len(q) : i # j => q[i] # q[j]}

\* The dict nodes of at most n items with keys in K and values in V.
DictsUpTo(K, V, n) ==
    {Dict([i \in 1..Len(ks) |-> Item(ks[i], vs[i])]) :
        <<ks, vs>> \in {<<a, b>> \in DistinctSeqsUpTo(K, n) \X SeqsUpTo(V, n) :
                            Len(a) = Len(b)}}

\* Schema nodes.  Scalars: primitive keywords, local and dotted reference
\* paths, reference paths that hold the text enum or structure, a non-string.
Scalars ==
    {Str(S_int), Str(S_str), Str(S_T), Str(S_pkg_b_T), Str(S_pkg_enums_Color),
     Str(S_enum), Str(S_structure), Other}
Inner ==
    {Str(S_int), Str(S_T), Str(S_pkg_enums_Color), Str(S_enum),
     List(<<>>), List(<<Str(S_T)>>), List(<<Str(S_T), Str(S_int)>>),
     Dict(<<Item(S_a, Str(S_int))>>),
     Dict(<<Item(S_enum, List(<<Str(S_red), Str(S_green)>>))>>),
     Dict(<<Item(S_structure, Str(S_T))>>)}
FieldKeys == {S_a, S_aQ, S_aQQ, S_b_c, S_enum, S_structure, S_empty}
FieldValues ==
    {Str(S_int), Str(S_T), List(<<>>), List(<<Str(S_T)>>),
     Dict(<<Item(S_a, Str(S_int))>>)}
Nodes ==
    Scalars
    \cup {List(es) : es \in SeqsUpTo(Inner, MaxItems)}
    \cup DictsUpTo(FieldKeys, FieldValues, MaxFields)

\* The namespace a builder run starts in: its name and its types dict, empty
\* or holding a type registered earlier in the document.
PriorType == EnumClass(S_Color, S_pkg_a, List(<<Str(S_red)>>))
BuildContexts ==
    { [ns |-> S_geo, name |-> S_Path, types |-> <<>>],
      [ns |-> S_pkg_a, name |-> S_T, types |-> <<>>],
      [ns |-> S_pkg_a, name |-> S_Path, types |-> <<Item(S_Color, PriorType)>>] }

\* Reference paths: every string of at most MaxPathLen characters over a
\* letter, a capital and the separator, and the two paths of the examples.
PathChars == {"a", "T", "."}
Paths == SeqsUpTo(PathChars, MaxPathLen) \cup {S_T, S_pkg_b_T}
NamespaceNames == {S_pkg_a, S_geo}

\* Documents.
Document(nsName, typeItems) ==
    Dict(<<Item(S_namespace, Str(nsName)), Item(S_types, Dict(typeItems))>>)
PointShape ==
    Dict(<<Item(S_x, Str(S_float)), Item(S_y, Str(S_float)),
           Item(S_labelQ, Str(S_str))>>)
DocPoint == Document(S_geo, <<Item(S_Point, PointShape)>>)
DocPath == Document(S_geo, <<Item(S_Path, List(<<PointShape>>))>>)
DocPathItem ==
    Document(S_pkg_a,
        <<Item(S_PathItem, Dict(<<Item(S_a, Str(S_T))>>)),
          Item(S_Path, List(<<Dict(<<Item(S_b_c, Str(S_pkg_b_T))>>)>>))>>)
DocColor ==
    Document(S_pkg_a,
        <<Item(S_Color,
               Dict(<<Item(S_enum, List(<<Str(S_red), Str(S_green), Str(S_blue)>>))>>))>>)
DocArity == Document(S_geo, <<Item(S_Bad, List(<<Str(S_int), Str(S_int)>>))>>)
DocScalar == Document(S_pkg_a, <<Item(S_Color, Str(S_T)), Item(S_Bad, Other)>>)
DocNoNamespace == Dict(<<Item(S_types, Dict(<<>>))>>)
DocNoTypes == Dict(<<Item(S_namespace, Str(S_geo))>>)
Files ==
    {DocPoint, DocPath, DocPathItem, DocColor, DocArity, DocScalar,
     DocNoNamespace, DocNoTypes, Unparsable}

(***************************************************************************)
(* The script's run                                                        *)
(***************************************************************************)
Init ==
    /\ files \in SeqsUpTo(Files, MaxFiles)
    /\ pc = "load" /\ loaded = 0 /\ heap = <<>> /\ namespaces = <<>>
    /\ types = <<>> /\ rendered = 0 /\ written = <<>>
    /\ BuildIdle /\ ResolveIdle

Next ==
    \/ LoadDocument
    \/ LoadAborts
    \/ StartRender
    \/ RenderSkip
    \/ RenderDefinition
    \/ RenderEnum
    \/ Finish

Spec == Init /\ [][Next]_vars

(***************************************************************************)
(* Runs of the builder on one node                                         *)
(***************************************************************************)
BuildStart(ctx) == [name |-> ctx.ns, types |-> ctx.types, regs |-> <<>>]
BuildContext ==
    CHOOSE ctx \in BuildContexts : ctx.ns = bNs /\ ctx.name = bName
Ran(out) == [run |-> TRUE, ok |-> out.ok, res |-> out.res, ns |-> out.ns]

BuildInit ==
    /\ \E ctx \in BuildContexts : bNs = ctx.ns /\ bName = ctx.name
    /\ bDesc \in Nodes
    /\ bOut = [run |-> FALSE] /\ bWrapOut = [run |-> FALSE]
    /\ ProgIdle /\ ResolveIdle

\* create_types(namespace, name, desc)
BuildNode ==
    /\ ~bOut.run
    /\ bOut' = Ran(create_types(BuildStart(BuildContext), bName, bDesc))
    /\ UNCHANGED <<bNs, bName, bDesc, bWrapOut>>
    /\ UNCHANGED progVars /\ UNCHANGED resolveVars

\* create_types(namespace, name, {"structure": desc})
BuildWrapped ==
    /\ ~bWrapOut.run
    /\ bWrapOut' = Ran(create_types(BuildStart(BuildContext), bName,
                           Dict(<<Item(S_structure, bDesc)>>)))
    /\ UNCHANGED <<bNs, bName, bDesc, bOut>>
    /\ UNCHANGED progVars /\ UNCHANGED resolveVars

BuildNext == BuildNode \/ BuildWrapped

SpecBuild == BuildInit /\ [][BuildNext]_vars

(***************************************************************************)
(* Runs of the resolver on one path                                        *)
(***************************************************************************)
ResolveInit ==
    /\ rNs \in NamespaceNames
    /\ rPath \in Paths
    /\ rOut = <<>>
    /\ ProgIdle /\ BuildIdle

\* _resolve_refpath(namespace, path)
Resolve ==
    /\ rOut = <<>>
    /\ rOut' = _resolve_refpath(rNs, rPath)
    /\ UNCHANGED <<rNs, rPath>>
    /\ UNCHANGED progVars /\ UNCHANGED buildVars

ResolveNext == Resolve

SpecResolve == ResolveInit /\ [][ResolveNext]_vars

(***************************************************************************)
(* Properties                                                              *)
(***************************************************************************)
NamedKinds == {"Object", "Array", "EnumClass"}

\* The node is handled as a mapping of fields by lines 98-107: a dict with
\* neither an enum key nor a structure key.
IsFieldMapping(desc) ==
    desc.kind = "dict" /\ ~DictHas(desc.items, S_enum)
                       /\ ~DictHas(desc.items, S_structure)

\* What building desc alone under the name returns, in the namespace of the
\* builder run.
BuiltAlone(name, desc) == create_types(Namespace(bNs, <<>>), name, desc)

RECURSIVE OptionalDepthOk(_)
OptionalDepthOk(t) ==
    CASE t.kind = "Optional" ->
            t.under.kind # "Optional" /\ OptionalDepthOk(t.under)
      [] t.kind = "Object" ->
            \A i \in 1..Len(t.fields) : OptionalDepthOk(t.fields[i].val)
      [] t.kind = "Array" -> OptionalDepthOk(t.item)
      [] OTHER -> TRUE

\* No string of the node holds the text enum or structure, so the tests of
\* lines 88 and 92 are never substring or membership tests that succeed.
RECURSIVE NoKeywordText(_)
NoKeywordText(desc) ==
    CASE desc.kind = "str" ->
            ~StrContains(S_enum, desc.val) /\ ~StrContains(S_structure, desc.val)
      [] desc.kind = "list" ->
            \A i \in 1..Len(desc.elems) : NoKeywordText(desc.elems[i])
      [] desc.kind = "dict" ->
            \A i \in 1..Len(desc.items) : NoKeywordText(desc.items[i].val)
      [] OTHER -> TRUE

\* C1: once documents are loaded, every entry of a namespace's type table,
\* and so of the list of types handed to the render loop, is an Object, an
\* Array or an EnumClass: building a primitive keyword registers nothing.
C1_OnlyNamedTypesRegistered ==
    /\ \A i \in 1..Len(types) : types[i].kind \in NamedKinds
    /\ \A h \in 1..Len(heap) :
           \A i \in 1..Len(heap[h]) : heap[h][i].val.kind \in NamedKinds

\* C2: building {structure: X} gives the same outcome (success or failure,
\* returned type definition, type-table contents) as building X itself under
\* the same name in the same namespace.  Stated for the nodes X none of whose
\* strings holds the text enum or structure, where the string tests of C10
\* play no part.
C2_WrapperBuildsAsInner ==
    (bOut.run /\ bWrapOut.run /\ NoKeywordText(bDesc)) =>
        /\ bWrapOut.ok = bOut.ok
        /\ bWrapOut.res = bOut.res
        /\ bWrapOut.ns.types = bOut.ns.types

\* C3: no document that loaded has registered two named types (Object, Array
\* or EnumClass) under one name in its namespace: such a document fails to
\* build.
C3_RegisteredNamesUnique ==
    \A n \in 1..Len(namespaces) :
        \A i, j \in 1..Len(namespaces[n].regs) :
            (/\ i # j
             /\ namespaces[n].regs[i].kind \in NamedKinds
             /\ namespaces[n].regs[j].kind \in NamedKinds)
                => namespaces[n].regs[i].name # namespaces[n].regs[j].name

HasDoubleMarker(desc) ==
    \E i \in 1..Len(desc.items) :
        LET k == desc.items[i].key
        IN  Len(k) >= 2 /\ k[Len(k)] = "?" /\ k[Len(k) - 1] = "?"
\* C4: no built type graph has an Optional wrapping an Optional, and a
\* mapping with a field key carrying two trailing ? markers fails to build.
C4_OptionalNeverNested ==
    bOut.run =>
        /\ bOut.ok =>
              /\ OptionalDepthOk(bOut.res)
              /\ \A i \in 1..Len(bOut.ns.types) :
                     OptionalDepthOk(bOut.ns.types[i].val)
        /\ (IsFieldMapping(bDesc) /\ HasDoubleMarker(bDesc)) => ~bOut.ok

\* C5: the resolver returns (path, current namespace) for a path without a
\* dot; for a path with a dot it returns a dot-free last component and the
\* prefix such that prefix + "." + component is the path again; so
\* ("pkg.a", "T") gives ("T", "pkg.a") and ("pkg.a", "pkg.b.T") gives
\* ("T", "pkg.b").
C5_ResolveSplitsAtLastDot ==
    rOut # <<>> =>
        /\ ~StrContains(<<".">>, rPath) => rOut = <<rPath, rNs>>
        /\ StrContains(<<".">>, rPath) =>
              /\ ~StrContains(<<".">>, rOut[1])
              /\ rOut[2] \o <<".">> \o rOut[1] = rPath
        /\ (rNs = S_pkg_a /\ rPath = S_T) => rOut = <<S_T, S_pkg_a>>
        /\ (rNs = S_pkg_a /\ rPath = S_pkg_b_T) => rOut = <<S_T, S_pkg_b>>
C5_Witness ==
    rNs = S_pkg_a /\ rPath = S_pkg_b_T /\ rOut = <<S_T, S_pkg_b>>

\* C6 as stated: building a sequence node succeeds exactly when the sequence
\* has one element.  Stated for the sequences none of whose strings holds the
\* text enum or structure, where the string tests of C10 play no part.
C6_SucceedsIffOneElement ==
    (bOut.run /\ bDesc.kind = "list" /\ NoKeywordText(bDesc)) =>
        (bOut.ok <=> Len(bDesc.elems) = 1)

SequenceBuiltRight(out) ==
    LET item == BuiltAlone(bName \o S_Item, bDesc.elems[1])
    IN  /\ out.ok <=> (Len(bDesc.elems) = 1 /\ item.ok)
        /\ out.ok =>
              /\ out.res = Array(bName, bNs, item.res)
              /\ DictHas(out.ns.types, bName)
              /\ DictGet(out.ns.types, bName) = out.res
              /\ IsFieldMapping(bDesc.elems[1]) =>
                    /\ item.res.kind = "Object"
                    /\ item.res.name = bName \o S_Item
                    /\ item.res.path = bNs
                    /\ DictHas(out.ns.types, bName \o S_Item)
                    /\ DictGet(out.ns.types, bName \o S_Item) = item.res
\* C6 amended: building a sequence node, bare or under a structure key,
\* succeeds exactly when the sequence has one element and building that
\* element under <name>Item succeeds; it then returns, and registers under the
\* given name, the Array of the given name in the current namespace whose item
\* is what building the element returned; an inline object element is
\* registered as the Object <name>Item.
C6_SucceedsIffOneBuildableElement ==
    /\ (bOut.run /\ bDesc.kind = "list") => SequenceBuiltRight(bOut)
    /\ (bWrapOut.run /\ bDesc.kind = "list") => SequenceBuiltRight(bWrapOut)
C6_Witness ==
    /\ bOut.run /\ bOut.ok /\ bDesc.kind = "list"
    /\ IsFieldMapping(bDesc.elems[1])
    /\ bOut.res.item.kind = "Object"

FieldBuiltRight(field, item) ==
    LET k == item.key
        opt == k[Len(k)] = "?"
        stripped == IF opt THEN SubSeq(k, 1, Len(k) - 1) ELSE k
        child == BuiltAlone(bName \o _camel_case(stripped), item.val)
    IN  /\ field.key = stripped
        /\ child.ok
        /\ field.val = IF opt THEN Optional(child.res) ELSE child.res
\* C7: a mapping that builds registers an Object under the given name whose
\* field table has one entry per declared key, in declaration order: the key
\* without its ? marker with the Optional of the child built under
\* name + camel-case(stripped key), or the key itself with the child built
\* under name + camel-case(key).
C7_OneFieldPerDeclaredKey ==
    (bOut.run /\ bOut.ok /\ IsFieldMapping(bDesc)) =>
        /\ bOut.res.kind = "Object"
        /\ bOut.res.name = bName
        /\ DictGet(bOut.ns.types, bName) = bOut.res
        /\ Len(bOut.res.fields) = Len(bDesc.items)
        /\ \A i \in 1..Len(bDesc.items) :
               i <= Len(bOut.res.fields)
                   /\ FieldBuiltRight(bOut.res.fields[i], bDesc.items[i])

FileFails(got) == ~LoadOutcome(got, <<>>).ok
\* C8: a run that met a file that fails to load or build has written no
\* file and takes no further step, with the failing file the first one not
\* loaded; a run that has written a file has loaded every file, and none of
\* its files fails.
C8_FailFastNoPartialOutput ==
    /\ pc = "aborted" =>
          /\ written = <<>> /\ rendered = 0
          /\ loaded < Len(files) /\ FileFails(files[loaded + 1])
          /\ Len(namespaces) = loaded
          /\ ~ENABLED Next
    /\ written # <<>> =>
          /\ loaded = Len(files)
          /\ \A i \in 1..Len(files) : ~FileFails(files[i])
    /\ (pc = "load" /\ loaded < Len(files) /\ FileFails(files[loaded + 1])) =>
          ~ENABLED LoadDocument
C8_Witness ==
    pc = "aborted" /\ loaded = 1 /\ Len(types) > 0 /\ written = <<>>

\* C9: a step changes no dict, no Namespace and no entry of the list of
\* types that existed before it; a pass of the load loop that builds takes
\* the next file in input order, makes one new Namespace with a dict of its
\* own, and that dict ends up as building the file alone on an empty dict
\* leaves it, its values appended to the list of types.
C9_DocumentsShareNoState ==
    [][ /\ Len(heap') >= Len(heap)
        /\ \A h \in 1..Len(heap) : heap'[h] = heap[h]
        /\ Len(namespaces') >= Len(namespaces)
        /\ \A n \in 1..Len(namespaces) : namespaces'[n] = namespaces[n]
        /\ Len(types') >= Len(types)
        /\ \A i \in 1..Len(types) : types'[i] = types[i]
        /\ loaded' # loaded =>
              /\ loaded' = loaded + 1
              /\ Len(namespaces') = Len(namespaces) + 1
              /\ Len(heap') = Len(heap) + 1
              /\ namespaces'[Len(namespaces')].types = Len(heap')
              /\ \A n \in 1..Len(namespaces) :
                     namespaces[n].types # Len(heap')
              /\ heap'[Len(heap')] = LoadOutcome(files[loaded'], <<>>).res.types
              /\ types' = types \o DictValues(heap'[Len(heap')])
      ]_vars
C9_Witness ==
    /\ loaded = 2 /\ Len(namespaces) = 2
    /\ namespaces[1].name = namespaces[2].name
    /\ heap[1] # <<>> /\ heap[2] # <<>>

\* C10: building a bare string that is no primitive keyword never fails: it
\* returns the Reference the resolver gives for the current namespace and
\* leaves the type table as it was.
C10_NonPrimitiveStringIsReference ==
    (bOut.run /\ bDesc.kind = "str" /\ bDesc.val \notin PrimitiveMap) =>
        /\ bOut.ok
        /\ bOut.res = Reference(_resolve_refpath(bNs, bDesc.val)[1],
                                _resolve_refpath(bNs, bDesc.val)[2])
        /\ bOut.ns.types = BuildContext.types

=============================================================================
